---- MODULE Spec2Model ----
(***************************************************************************)
(* A model of V-Engine's transform pipeline: the alg:: vector and matrix   *)
(* library (src/src/algebra.hpp), the Camera class (src/src/Camera.cpp)    *)
(* and the frame loop of src/src/main.cpp that feeds input to the camera   *)
(* and builds the view and projection matrices.                            *)
(*                                                                         *)
(* Numbers.  A C++ float is modelled as a fixed-point integer counting     *)
(* units of 1/SCALE: 2.5f is 25000, 89.0f is 890000.  Products and         *)
(* quotients round to the nearest unit.  std::sqrt, std::sin, std::cos and *)
(* std::tan are computed (integer square root, power series), so they are  *)
(* exact at 0 and at multiples of a quarter turn and within a few units    *)
(* elsewhere.  Statements about computed values at such inexact points are *)
(* made with the tolerance TOL.                                            *)
(***************************************************************************)
EXTENDS Integers, Sequences, FiniteSets, TLC

\* One unit of the fixed-point representation of float is 1/SCALE.
SCALE == 10000

\* Tolerance, in units, for values that went through sqrt or trigonometry.
TOL == SCALE \div 500

Abs(a) == IF a < 0 THEN -a ELSE a

Sgn(a) == IF a < 0 THEN -1 ELSE IF a > 0 THEN 1 ELSE 0

\* Integer quotient rounded to the nearest integer (b > 0), symmetric in sign.
RoundDiv(a, b) ==
    CHOOSE q \in {Sgn(x) * ((2 * Abs(x) + b) \div (2 * b)) : x \in {a}} : TRUE

\* float * float: both operands are split in whole and fractional part so
\* that no intermediate product exceeds the 32-bit range of the checker.
\* (Each operand is evaluated once, as a set's element.)
Mul(a, b) ==
    CHOOSE p \in
       {Sgn(u) * Sgn(v) *
          ((x \div SCALE) * (y \div SCALE) * SCALE + (x \div SCALE) * (y % SCALE)
             + (x % SCALE) * (y \div SCALE) + ((x % SCALE) * (y % SCALE) + SCALE \div 2) \div SCALE) :
        <<u, v, x, y>> \in {<<s, t, Abs(s), Abs(t)>> : <<s, t>> \in {<<a, b>>}}} : TRUE

\* float / float (b # 0), by long division in two steps of two digits.
Div(a, b) ==
    CHOOSE q \in
       {Sgn(u) * Sgn(v) *
          ((x \div y) * SCALE + (((x % y) * 100) \div y) * 100
             + ((((x % y) * 100) % y) * 100 + y \div 2) \div y) :
        <<u, v, x, y>> \in {<<s, t, Abs(s), Abs(t)>> : <<s, t>> \in {<<a, b>>}}} : TRUE

RECURSIVE NewtonSqrt(_, _)
NewtonSqrt(n, x) ==
    CHOOSE r \in {IF y >= x THEN x ELSE NewtonSqrt(n, y) : y \in {(x + n \div x) \div 2}} : TRUE

\* Floor of the square root of a natural number.
ISqrt(n) ==
    CHOOSE r \in {IF k <= 0 THEN 0 ELSE IF k < 4 THEN 1 ELSE NewtonSqrt(k, k \div 2) : k \in {n}} : TRUE

\* std::sqrt on a float: sqrt(v / SCALE) * SCALE = sqrt(v * SCALE).
Sqrt(v) ==
    IF v < 200000 THEN ISqrt(v * SCALE)
    ELSE IF v < 20000000 THEN ISqrt(v * 100) * 10
    ELSE ISqrt(v) * 100

\* ---------------------------------------------------------------------
\* alg:: utility constants and functions (algebra.hpp)
\* ---------------------------------------------------------------------

\* constexpr float PI = 3.14159265359f
PI == 31416

HALF_PI == PI \div 2

degrees_to_radians(degrees) == RoundDiv(Mul(degrees, PI), 180)

\* Power series of sine and cosine on [-PI/4, PI/4].
SinSeries(r) ==
    LET r2 == Mul(r, r)
        r3 == Mul(r2, r)
        r5 == Mul(r3, r2)
        r7 == Mul(r5, r2)
    IN  r - RoundDiv(r3, 6) + RoundDiv(r5, 120) - RoundDiv(r7, 5040)

CosSeries(r) ==
    LET r2 == Mul(r, r)
        r4 == Mul(r2, r2)
        r6 == Mul(r4, r2)
    IN  SCALE - RoundDiv(r2, 2) + RoundDiv(r4, 24) - RoundDiv(r6, 720)

\* The number of quarter turns nearest to the angle, and the remainder.
Quadrant(rad) == Sgn(rad) * ((2 * Abs(rad) + HALF_PI) \div (2 * HALF_PI))

\* std::sin and std::cos of an angle in radians.
Sin(rad) ==
    LET k == Quadrant(rad)
        r == rad - k * HALF_PI
        q == k % 4
    IN  CASE q = 0 -> SinSeries(r)
          [] q = 1 -> CosSeries(r)
          [] q = 2 -> -SinSeries(r)
          [] q = 3 -> -CosSeries(r)

Cos(rad) ==
    LET k == Quadrant(rad)
        r == rad - k * HALF_PI
        q == k % 4
    IN  CASE q = 0 -> CosSeries(r)
          [] q = 1 -> -SinSeries(r)
          [] q = 2 -> -CosSeries(r)
          [] q = 3 -> SinSeries(r)

\* std::tan (the cosine is not zero at the angles the model uses).
Tan(rad) == Div(Sin(rad), Cos(rad))

\* ---------------------------------------------------------------------
\* alg::Vec3
\* ---------------------------------------------------------------------

Vec3(x, y, z) == [x |-> x, y |-> y, z |-> z]

VAdd(a, b) == Vec3(a.x + b.x, a.y + b.y, a.z + b.z)

VSub(a, b) == Vec3(a.x - b.x, a.y - b.y, a.z - b.z)

VScale(v, scalar) == Vec3(Mul(v.x, scalar), Mul(v.y, scalar), Mul(v.z, scalar))

VDivide(v, scalar) == Vec3(Div(v.x, scalar), Div(v.y, scalar), Div(v.z, scalar))

\* sqrt(x*x + y*y + z*z).  The sum of the squares is taken on the raw units
\* (the root of the raw sum is the magnitude in units), with the operands
\* scaled down first when the squares would leave the checker's range.
Hypot3(x, y, z) ==
    LET big == IF Abs(x) >= Abs(y) /\ Abs(x) >= Abs(z) THEN Abs(x)
               ELSE IF Abs(y) >= Abs(z) THEN Abs(y) ELSE Abs(z)
        k   == IF big <= 26000 THEN 1 ELSE IF big <= 260000 THEN 10 ELSE 100
        a   == RoundDiv(x, k)
        b   == RoundDiv(y, k)
        c   == RoundDiv(z, k)
    IN  ISqrt(a * a + b * b + c * c) * k

magnitude(v) == Hypot3(v.x, v.y, v.z)

\* Vec3::normalize, as the value it leaves in the object.
normalize(v) ==
    LET mag == magnitude(v)
    IN  IF mag > 0 THEN VDivide(v, mag) ELSE v

\* Variant: the vector is divided by its squared magnitude.
normalized_BySquaredMagnitude(v) ==
    LET mag == magnitude(v)
    IN  IF mag > 0 THEN VDivide(v, Mul(mag, mag)) ELSE Vec3(0, 0, 0)

normalized(v) ==
    LET mag == magnitude(v)
    IN  IF mag > 0 THEN VDivide(v, mag) ELSE Vec3(0, 0, 0)

dot(a, b) == Mul(a.x, b.x) + Mul(a.y, b.y) + Mul(a.z, b.z)

cross(a, b) ==
    Vec3(Mul(a.y, b.z) - Mul(a.z, b.y),
         Mul(a.z, b.x) - Mul(a.x, b.z),
         Mul(a.x, b.y) - Mul(a.y, b.x))

\* ---------------------------------------------------------------------
\* alg::Mat4: sixteen floats, column-major, m[column * 4 + row]
\* ---------------------------------------------------------------------

\* Variant: the default constructor zeroes the array.
Mat4_Zero == [i \in 0..15 |-> 0]

\* Variant: the point is divided by the w that row 3 gives.
MulMat4Vec3_Divide(m, v) ==
    LET w == Mul(m[3], v.x) + Mul(m[7], v.y) + Mul(m[11], v.z) + m[15]
        x == Mul(m[0], v.x) + Mul(m[4], v.y) + Mul(m[8], v.z) + m[12]
        y == Mul(m[1], v.x) + Mul(m[5], v.y) + Mul(m[9], v.z) + m[13]
        z == Mul(m[2], v.x) + Mul(m[6], v.y) + Mul(m[10], v.z) + m[14]
    IN  IF w = 0 THEN [x |-> x, y |-> y, z |-> z]
        ELSE [x |-> Div(x, w), y |-> Div(y, w), z |-> Div(z, w)]

\* Mat4::Mat4(): the default constructor builds the identity.
Mat4 == [i \in 0..15 |-> IF i \in {0, 5, 10, 15} THEN SCALE ELSE 0]

\* operator*(Mat4, Vec3): the point (x, y, z, 1) through rows 0..2.
MulMat4Vec3(m, v) ==
    Vec3(Mul(m[0], v.x) + Mul(m[4], v.y) + Mul(m[8], v.z) + m[12],
         Mul(m[1], v.x) + Mul(m[5], v.y) + Mul(m[9], v.z) + m[13],
         Mul(m[2], v.x) + Mul(m[6], v.y) + Mul(m[10], v.z) + m[14])

\* Variant: the operands are indexed as if stored row by row.
MulMat4_RowMajor(a, b) ==
    [i \in 0..15 |->
       LET col == i \div 4
           row == i % 4
       IN  Mul(a[row * 4 + 0], b[0 * 4 + col]) + Mul(a[row * 4 + 1], b[1 * 4 + col])
             + Mul(a[row * 4 + 2], b[2 * 4 + col]) + Mul(a[row * 4 + 3], b[3 * 4 + col])]

\* operator*(Mat4, Mat4): result.m[col * 4 + row] is the sum over k of
\* a.m[k * 4 + row] * b.m[col * 4 + k].
MulMat4(a, b) ==
    [i \in 0..15 |->
       LET col == i \div 4
           row == i % 4
       IN  Mul(a[0 * 4 + row], b[col * 4 + 0]) + Mul(a[1 * 4 + row], b[col * 4 + 1])
             + Mul(a[2 * 4 + row], b[col * 4 + 2]) + Mul(a[3 * 4 + row], b[col * 4 + 3])]

\* Variant: the translation is written to row 3 instead of column 3.
create_translation_Row(t) == [Mat4 EXCEPT ![3] = t.x, ![7] = t.y, ![11] = t.z]

create_translation(t) == [Mat4 EXCEPT ![12] = t.x, ![13] = t.y, ![14] = t.z]

create_scale(s) == [Mat4 EXCEPT ![0] = s.x, ![5] = s.y, ![10] = s.z]

\* Variant: both off-diagonal entries carry the same sign.
create_rotation_x_SameSign(angle_rad) ==
    LET c == Cos(angle_rad)
        s == Sin(angle_rad)
    IN  [Mat4 EXCEPT ![5] = c, ![9] = s, ![6] = s, ![10] = c]

create_rotation_x(angle_rad) ==
    LET c == Cos(angle_rad)
        s == Sin(angle_rad)
    IN  [Mat4 EXCEPT ![5] = c, ![9] = -s, ![6] = s, ![10] = c]

create_rotation_y(angle_rad) ==
    LET c == Cos(angle_rad)
        s == Sin(angle_rad)
    IN  [Mat4 EXCEPT ![0] = c, ![8] = s, ![2] = -s, ![10] = c]

create_rotation_z(angle_rad) ==
    LET c == Cos(angle_rad)
        s == Sin(angle_rad)
    IN  [Mat4 EXCEPT ![0] = c, ![4] = -s, ![1] = s, ![5] = c]

\* Variant: the factors are multiplied in the order of the function's name.
create_rotation_xyz_NameOrder(angles_rad) ==
    MulMat4(MulMat4(create_rotation_x(angles_rad.x), create_rotation_y(angles_rad.y)),
            create_rotation_z(angles_rad.z))

create_rotation_xyz(angles_rad) ==
    LET rot_y == create_rotation_y(angles_rad.y)
        rot_x == create_rotation_x(angles_rad.x)
        rot_z == create_rotation_z(angles_rad.z)
    IN  MulMat4(MulMat4(rot_y, rot_x), rot_z)

\* Variant: column 3 holds the eye's coordinates along the axes, not their
\* negation.
lookAt_PositiveTranslation(eye, target, up) ==
    LET z_axis == normalized(VSub(eye, target))
        x_axis == normalized(cross(up, z_axis))
        y_axis == cross(z_axis, x_axis)
    IN  [i \in 0..15 |->
           CASE i = 0  -> x_axis.x
             [] i = 1  -> x_axis.y
             [] i = 2  -> x_axis.z
             [] i = 4  -> y_axis.x
             [] i = 5  -> y_axis.y
             [] i = 6  -> y_axis.z
             [] i = 8  -> z_axis.x
             [] i = 9  -> z_axis.y
             [] i = 10 -> z_axis.z
             [] i = 12 -> dot(x_axis, eye)
             [] i = 13 -> dot(y_axis, eye)
             [] i = 14 -> dot(z_axis, eye)
             [] i = 15 -> SCALE
             [] OTHER  -> 0]

lookAt(eye, target, up) ==
    LET z_axis == normalized(VSub(eye, target))
        x_axis == normalized(cross(up, z_axis))
        y_axis == cross(z_axis, x_axis)
    IN  [i \in 0..15 |->
           CASE i = 0  -> x_axis.x
             [] i = 1  -> x_axis.y
             [] i = 2  -> x_axis.z
             [] i = 3  -> 0
             [] i = 4  -> y_axis.x
             [] i = 5  -> y_axis.y
             [] i = 6  -> y_axis.z
             [] i = 7  -> 0
             [] i = 8  -> z_axis.x
             [] i = 9  -> z_axis.y
             [] i = 10 -> z_axis.z
             [] i = 11 -> 0
             [] i = 12 -> -dot(x_axis, eye)
             [] i = 13 -> -dot(y_axis, eye)
             [] i = 14 -> -dot(z_axis, eye)
             [] i = 15 -> SCALE]

\* "Mat4 mat{};" runs Mat4's user-provided default constructor, so mat
\* starts as the identity; five entries are then assigned.
create_perspective(fov_rad, aspect_ratio, near_plane, far_plane) ==
    LET tan_half_fov == Tan(RoundDiv(fov_rad, 2))
    IN  [Mat4 EXCEPT
           ![0]  = Div(SCALE, Mul(aspect_ratio, tan_half_fov)),
           ![5]  = Div(SCALE, tan_half_fov),
           ![10] = -Div(far_plane + near_plane, far_plane - near_plane),
           ![11] = -SCALE,
           ![14] = -Div(Mul(2 * far_plane, near_plane), far_plane - near_plane)]

\* ---------------------------------------------------------------------
\* alg::Quat: w + xi + yj + zk
\* ---------------------------------------------------------------------

Quat(w, x, y, z) == [w |-> w, x |-> x, y |-> y, z |-> z]

from_axis_angle(axis, angle_rad) ==
    LET half_angle == RoundDiv(angle_rad, 2)
        s          == Sin(half_angle)
    IN  Quat(Cos(half_angle), Mul(axis.x, s), Mul(axis.y, s), Mul(axis.z, s))

QAdd(a, b) == Quat(a.w + b.w, a.x + b.x, a.y + b.y, a.z + b.z)

QSub(a, b) == Quat(a.w - b.w, a.x - b.x, a.y - b.y, a.z - b.z)

QScale(q, scalar) == Quat(Mul(q.w, scalar), Mul(q.x, scalar), Mul(q.y, scalar), Mul(q.z, scalar))

QNeg(q) == Quat(-q.w, -q.x, -q.y, -q.z)

\* Quat::magnitude: sqrt(w*w + x*x + y*y + z*z), the squares taken on the
\* raw units as in Hypot3.
Quat_magnitude(q) ==
    LET big == IF Abs(q.w) + Abs(q.x) >= Abs(q.y) + Abs(q.z)
               THEN Abs(q.w) + Abs(q.x) ELSE Abs(q.y) + Abs(q.z)
        k   == IF big <= 23000 THEN 1 ELSE IF big <= 230000 THEN 10 ELSE 100
        a   == RoundDiv(q.w, k)
        b   == RoundDiv(q.x, k)
        c   == RoundDiv(q.y, k)
        d   == RoundDiv(q.z, k)
    IN  ISqrt(a * a + b * b + c * c + d * d) * k

\* Variant: the scaling is skipped for a zero magnitude only.
Quat_normalized_ZeroGuard(q) ==
    LET mag == Quat_magnitude(q)
    IN  IF mag > 0 THEN QScale(q, Div(SCALE, mag)) ELSE q

\* Quat::normalize / normalized: scaled by 1 / mag when mag > 0.0001.
Quat_normalized(q) ==
    LET mag == Quat_magnitude(q)
    IN  IF mag > SCALE \div 10000 THEN QScale(q, Div(SCALE, mag)) ELSE q

\* Variant: the scalar part is negated with the vector part.
conjugate_NegateAll(q) == Quat(-q.w, -q.x, -q.y, -q.z)

conjugate(q) == Quat(q.w, -q.x, -q.y, -q.z)

inverse(q) == Quat_normalized(conjugate(q))

to_rotation_matrix(q) ==
    LET xx == Mul(q.x, q.x)
        yy == Mul(q.y, q.y)
        zz == Mul(q.z, q.z)
        xy == Mul(q.x, q.y)
        xz == Mul(q.x, q.z)
        yz == Mul(q.y, q.z)
        wx == Mul(q.w, q.x)
        wy == Mul(q.w, q.y)
        wz == Mul(q.w, q.z)
    IN  [Mat4 EXCEPT
           ![0]  = SCALE - 2 * (yy + zz),
           ![1]  = 2 * (xy + wz),
           ![2]  = 2 * (xz - wy),
           ![4]  = 2 * (xy - wz),
           ![5]  = SCALE - 2 * (xx + zz),
           ![6]  = 2 * (yz + wx),
           ![8]  = 2 * (xz + wy),
           ![9]  = 2 * (yz - wx),
           ![10] = SCALE - 2 * (xx + yy)]

\* Variant: the factors are taken in the other order.
QMul_Reversed(q1, q2) ==
    Quat(Mul(q2.w, q1.w) - Mul(q2.x, q1.x) - Mul(q2.y, q1.y) - Mul(q2.z, q1.z),
         Mul(q2.w, q1.x) + Mul(q2.x, q1.w) + Mul(q2.y, q1.z) - Mul(q2.z, q1.y),
         Mul(q2.w, q1.y) - Mul(q2.x, q1.z) + Mul(q2.y, q1.w) + Mul(q2.z, q1.x),
         Mul(q2.w, q1.z) + Mul(q2.x, q1.y) - Mul(q2.y, q1.x) + Mul(q2.z, q1.w))

\* operator*(Quat, Quat): the Hamilton product.
QMul(q1, q2) ==
    Quat(Mul(q1.w, q2.w) - Mul(q1.x, q2.x) - Mul(q1.y, q2.y) - Mul(q1.z, q2.z),
         Mul(q1.w, q2.x) + Mul(q1.x, q2.w) + Mul(q1.y, q2.z) - Mul(q1.z, q2.y),
         Mul(q1.w, q2.y) - Mul(q1.x, q2.z) + Mul(q1.y, q2.w) + Mul(q1.z, q2.x),
         Mul(q1.w, q2.z) + Mul(q1.x, q2.y) - Mul(q1.y, q2.x) + Mul(q1.z, q2.w))

\* std::acos on [0, 1]: sqrt(1 - x) times a cubic in x (the error of the
\* approximation is below the resolution of the model).
AcosUnit(x) ==
    LET x2 == Mul(x, x)
        x3 == Mul(x2, x)
    IN  Mul(Sqrt(SCALE - x),
            15707 - RoundDiv(2121 * x, SCALE) + RoundDiv(743 * x2, SCALE)
              - RoundDiv(187 * x3, SCALE))

\* std::acos on [-1, 1]: acos(-x) = PI - acos(x).
Acos(x) == IF x >= 0 THEN AcosUnit(x) ELSE PI - AcosUnit(-x)

QDot(q0, q1) == Mul(q0.w, q1.w) + Mul(q0.x, q1.x) + Mul(q0.y, q1.y) + Mul(q0.z, q1.z)

DOT_THRESHOLD == 9995

\* Variant: the linear branch is taken from a dot product of 0.5 on.
SlerpFrom_LowThreshold(q0, q1, dot_product, t) ==
    IF dot_product > SCALE \div 2
    THEN Quat_normalized(QAdd(q0, QScale(QSub(q1, q0), t)))
    ELSE LET theta_0     == Acos(dot_product)
             theta       == Mul(theta_0, t)
             sin_theta   == Sin(theta)
             sin_theta_0 == Sin(theta_0)
             s0          == Cos(theta) - Div(Mul(dot_product, sin_theta), sin_theta_0)
             s1          == Div(sin_theta, sin_theta_0)
         IN  QAdd(QScale(q0, s0), QScale(q1, s1))

\* slerp after the choice of the shorter path: q1 and dot_product are the
\* values the first branch left.
SlerpFrom(q0, q1, dot_product, t) ==
    IF dot_product > DOT_THRESHOLD
    THEN Quat_normalized(QAdd(q0, QScale(QSub(q1, q0), t)))
    ELSE LET theta_0     == Acos(dot_product)
             theta       == Mul(theta_0, t)
             sin_theta   == Sin(theta)
             sin_theta_0 == Sin(theta_0)
             s0          == Cos(theta) - Div(Mul(dot_product, sin_theta), sin_theta_0)
             s1          == Div(sin_theta, sin_theta_0)
         IN  QAdd(QScale(q0, s0), QScale(q1, s1))

\* Variant: q1 is never negated (opposite operands, for which the angle's
\* sine vanishes, give q1).
slerp_LongPath(q0, q1, t) ==
    LET d == QDot(q0, q1)
    IN  IF d < -DOT_THRESHOLD THEN q1 ELSE SlerpFrom(q0, q1, d, t)

\* Variant: the shorter path is taken by negating q0.
slerp_NegateQ0(q0, q1, t) ==
    LET dot_product == QDot(q0, q1)
    IN  IF dot_product < 0
        THEN SlerpFrom(QNeg(q0), q1, -dot_product, t)
        ELSE SlerpFrom(q0, q1, dot_product, t)

slerp(q0, q1, t) ==
    LET dot_product == QDot(q0, q1)
    IN  IF dot_product < 0
        THEN SlerpFrom(q0, QNeg(q1), -dot_product, t)
        ELSE SlerpFrom(q0, q1, dot_product, t)

\* ---------------------------------------------------------------------
\* Camera (Camera.hpp, Camera.cpp)
\* ---------------------------------------------------------------------

\* Default camera values, in degrees and units per second.
YAW == -900000

PITCH == 0

SPEED == 25000

SENSITIVITY == 800

ZOOM == 450000

Camera_Movement == {"FORWARD", "BACKWARD", "LEFT", "RIGHT"}

\* Variant: Right and Up are rotated from the basis the camera already has.
updateCameraVectors_Incremental(c) ==
    LET front == Vec3(Mul(Cos(degrees_to_radians(c.Yaw)), Cos(degrees_to_radians(c.Pitch))),
                      Sin(degrees_to_radians(c.Pitch)),
                      Mul(Sin(degrees_to_radians(c.Yaw)), Cos(degrees_to_radians(c.Pitch))))
        Front == normalized(front)
        Right == normalized(cross(Front, c.Up))
        Up    == normalized(cross(Right, Front))
    IN  [c EXCEPT !.Front = Front, !.Right = Right, !.Up = Up]

updateCameraVectors(c) ==
    LET front == Vec3(Mul(Cos(degrees_to_radians(c.Yaw)), Cos(degrees_to_radians(c.Pitch))),
                      Sin(degrees_to_radians(c.Pitch)),
                      Mul(Sin(degrees_to_radians(c.Yaw)), Cos(degrees_to_radians(c.Pitch))))
        Front == normalized(front)
        Right == normalized(cross(Front, c.WorldUp))
        Up    == normalized(cross(Right, Front))
    IN  [c EXCEPT !.Front = Front, !.Right = Right, !.Up = Up]

\* Camera::Camera(position, up, yaw, pitch)
Camera(position, up, yaw, pitch) ==
    updateCameraVectors(
        [Position |-> position, Front |-> Vec3(0, 0, -SCALE),
         Up |-> Vec3(0, 0, 0), Right |-> Vec3(0, 0, 0), WorldUp |-> up,
         Yaw |-> yaw, Pitch |-> pitch,
         MovementSpeed |-> SPEED, MouseSensitivity |-> SENSITIVITY, Zoom |-> ZOOM])

\* Variant: the target is the direction, not the point in front of the eye.
getViewMatrix_TargetFront(c) == lookAt(c.Position, c.Front, c.Up)

getViewMatrix(c) == lookAt(c.Position, VAdd(c.Position, c.Front), c.Up)

\* Variant: the step does not depend on the frame time.
processKeyboard_NoDeltaTime(c, direction, deltaTime) ==
    LET velocity == c.MovementSpeed
    IN  CASE direction = "FORWARD"  -> [c EXCEPT !.Position = VAdd(@, VScale(c.Front, velocity))]
          [] direction = "BACKWARD" -> [c EXCEPT !.Position = VSub(@, VScale(c.Front, velocity))]
          [] direction = "LEFT"     -> [c EXCEPT !.Position = VSub(@, VScale(c.Right, velocity))]
          [] direction = "RIGHT"    -> [c EXCEPT !.Position = VAdd(@, VScale(c.Right, velocity))]

processKeyboard(c, direction, deltaTime) ==
    LET velocity == Mul(c.MovementSpeed, deltaTime)
    IN  CASE direction = "FORWARD"  -> [c EXCEPT !.Position = VAdd(@, VScale(c.Front, velocity))]
          [] direction = "BACKWARD" -> [c EXCEPT !.Position = VSub(@, VScale(c.Front, velocity))]
          [] direction = "LEFT"     -> [c EXCEPT !.Position = VSub(@, VScale(c.Right, velocity))]
          [] direction = "RIGHT"    -> [c EXCEPT !.Position = VAdd(@, VScale(c.Right, velocity))]

\* Variant: only the upper limit of the pitch is enforced.
processMouseMovement_NoLowerClamp(c, xoffset, yoffset, constrainPitch) ==
    LET xo    == Mul(xoffset, c.MouseSensitivity)
        yo    == Mul(yoffset, c.MouseSensitivity)
        pitch == c.Pitch + yo
        clamped == IF constrainPitch /\ pitch > 890000 THEN 890000 ELSE pitch
    IN  updateCameraVectors([c EXCEPT !.Yaw = c.Yaw + xo, !.Pitch = clamped])

\* Variant: the offsets are not scaled by the mouse sensitivity.
processMouseMovement_Unscaled(c, xoffset, yoffset, constrainPitch) ==
    LET pitch == c.Pitch + yoffset
        clamped == IF constrainPitch
                   THEN IF pitch > 890000 THEN 890000
                        ELSE IF pitch < -890000 THEN -890000 ELSE pitch
                   ELSE pitch
    IN  updateCameraVectors([c EXCEPT !.Yaw = c.Yaw + xoffset, !.Pitch = clamped])

processMouseMovement(c, xoffset, yoffset, constrainPitch) ==
    LET xo    == Mul(xoffset, c.MouseSensitivity)
        yo    == Mul(yoffset, c.MouseSensitivity)
        yaw   == c.Yaw + xo
        pitch == c.Pitch + yo
        clamped == IF constrainPitch
                   THEN IF pitch > 890000 THEN 890000
                        ELSE IF pitch < -890000 THEN -890000 ELSE pitch
                   ELSE pitch
    IN  updateCameraVectors([c EXCEPT !.Yaw = yaw, !.Pitch = clamped])

\* Variant: scrolling up widens the field of view.
processMouseScroll_Added(c, yoffset) ==
    LET zoom == c.Zoom + yoffset
    IN  [c EXCEPT !.Zoom = IF zoom < SCALE THEN SCALE
                           ELSE IF zoom > 450000 THEN 450000 ELSE zoom]

\* Variant: the wheel sets the travel speed, as fly cameras often do.
processMouseScroll_Speed(c, yoffset) ==
    LET speed == c.MovementSpeed + yoffset
    IN  [c EXCEPT !.MovementSpeed = IF speed < SCALE THEN SCALE ELSE speed]

processMouseScroll(c, yoffset) ==
    LET zoom == c.Zoom - yoffset
    IN  [c EXCEPT !.Zoom = IF zoom < SCALE THEN SCALE
                           ELSE IF zoom > 450000 THEN 450000 ELSE zoom]

\* ---------------------------------------------------------------------
\* State
\* ---------------------------------------------------------------------

VARIABLES
    camera,            \* main.cpp's global Camera / the Camera object under call
    lastX, lastY,      \* main.cpp: last cursor position seen by mouse_callback
    firstMouse,        \* main.cpp: the next cursor event only records the position
    cameraActive,      \* main.cpp: right mouse button held
    deltaTime,         \* main.cpp: seconds between the last two frames
    keys,              \* GLFW: the keys currently pressed
    wantCaptureMouse,  \* ImGui: io.WantCaptureMouse
    shouldClose,       \* GLFW: the window's close flag
    entities,          \* Scene::entities, the objects the shared_ptrs point to
    activeCamera,      \* Scene::activeCamera, an index into entities (0: null)
    selectedEntity,    \* Scene::selectedEntity, an index into entities (0: null)
    projection, view,  \* the matrices uploaded by the last 3D rendering pass
    pc,                \* the frame loop's position
    events,            \* callbacks delivered by the current glfwPollEvents
    trace,             \* the calls made on the Camera object so far, with results
    fn, args, result, done,  \* a call of a pure function of the alg library
    cameras,           \* Scene::cameras, indices into entities
    lights,            \* Scene::lights, indices into entities
    shader,            \* the light uniforms of the shader program
    meshes             \* ResourceManager::meshes, from key to Mesh

vars == <<camera, lastX, lastY, firstMouse, cameraActive, deltaTime, keys,
          wantCaptureMouse, shouldClose, entities, activeCamera, selectedEntity,
          projection, view, pc, events, trace, fn, args, result, done,
          cameras, lights, shader, meshes>>

loopVars == <<lastX, lastY, firstMouse, cameraActive, deltaTime, keys,
              wantCaptureMouse, shouldClose, entities, activeCamera,
              selectedEntity, projection, pc, events>>

mathVars == <<fn, args, result, done>>

objectVars == <<cameras, lights, shader, meshes>>

\* main.cpp: SCR_WIDTH, SCR_HEIGHT (pixels)
SCR_WIDTH == 1920

SCR_HEIGHT == 1080

\* A float holding a whole number of pixels, seconds or degrees.
F(n) == n * SCALE

\* CameraEntity(name): Entity(name) puts the entity at the origin with unit
\* scale; the camera member is a default Camera moved to the entity's position.
CameraEntity ==
    [kind |-> "camera", position |-> Vec3(0, 0, 0), rotation |-> Vec3(0, 0, 0),
     scale |-> Vec3(SCALE, SCALE, SCALE), isActive |-> FALSE,
     camera |-> [Camera(Vec3(0, 0, 0), Vec3(0, SCALE, 0), YAW, PITCH)
                   EXCEPT !.Position = Vec3(0, 0, 0)]]

\* ModelEntity(mesh, texture, shader): the entity of the cube.  ModelEntity
\* declares position, rotation and scale members of its own, which hide
\* those of Entity.
ModelEntity ==
    [kind |-> "model", position |-> Vec3(0, 0, 0), rotation |-> Vec3(0, 0, 0),
     scale |-> Vec3(SCALE, SCALE, SCALE),
     modelPosition |-> Vec3(0, 0, 0), modelRotation |-> Vec3(0, 0, 0),
     modelScale |-> Vec3(SCALE, SCALE, SCALE)]

\* Entity::getTransformMatrix.
Entity_getTransformMatrix(e) ==
    MulMat4(MulMat4(create_translation(e.position), create_rotation_xyz(e.rotation)),
            create_scale(e.scale))

\* ModelEntity::getTransformMatrix, on the members ModelEntity declares: the
\* three rotations are by the literal 1.0f, whatever the rotation member.
ModelEntity_getTransformMatrix(e) ==
    MulMat4(MulMat4(MulMat4(MulMat4(create_translation(e.modelPosition),
                                    create_rotation_x(SCALE)),
                            create_rotation_y(SCALE)),
                    create_rotation_z(SCALE)),
            create_scale(e.modelScale))

\* The virtual call entity->getTransformMatrix().
getTransformMatrix(e) ==
    IF e.kind = "model" THEN ModelEntity_getTransformMatrix(e)
    ELSE Entity_getTransformMatrix(e)

\* Light(name), with the type the Properties window can choose.
Light(type) ==
    [kind |-> "light", position |-> Vec3(0, 0, 0), rotation |-> Vec3(0, 0, 0),
     scale |-> Vec3(SCALE, SCALE, SCALE), type |-> type, enabled |-> TRUE]

\* The shader program before any light uniform is set: activeLightCount
\* reads 0 and no element of lights[] has been written.
NoUniforms == [activeLightCount |-> 0, lights |-> <<>>]

\* A Scene with no camera list and no light, a shader without uniforms and
\* an empty ResourceManager.
ObjectsIdle ==
    /\ cameras = <<>>
    /\ lights = <<>>
    /\ shader = NoUniforms
    /\ meshes = <<>>

\* The state main() reaches before its render loop: the file-scope variables,
\* Scene() with its default camera made active, and the cube added.
LoopInit ==
    /\ camera = Camera(Vec3(0, 0, F(5)), Vec3(0, SCALE, 0), YAW, PITCH)
    /\ lastX = F(SCR_WIDTH) \div 2
    /\ lastY = F(SCR_HEIGHT) \div 2
    /\ firstMouse = TRUE
    /\ cameraActive = FALSE
    /\ deltaTime = 0
    /\ keys = {}
    /\ wantCaptureMouse = FALSE
    /\ shouldClose = FALSE
    /\ entities = <<[CameraEntity EXCEPT !.isActive = TRUE], ModelEntity>>
    /\ activeCamera = 1
    /\ selectedEntity = 0
    /\ projection = Mat4
    /\ view = Mat4
    /\ pc = "input"
    /\ events = 0
    /\ cameras = <<1>>
    /\ lights = <<>>
    /\ shader = NoUniforms
    /\ meshes = <<>>

MathIdle ==
    /\ fn = "none"
    /\ args = <<>>
    /\ result = <<>>
    /\ done = FALSE

\* ---------------------------------------------------------------------
\* The Camera class under any sequence of calls
\* ---------------------------------------------------------------------

\* The longest call sequence explored.
MaxCalls == 3

\* Arguments of the calls: seconds, pixels of cursor travel (with the
\* constrainPitch flag), scroll steps.
CallDeltaTimes == {F(1), F(1) \div 2}

CallLooks ==
    {<<F(0), F(1000), TRUE>>, <<F(125), F(-2000), TRUE>>, <<F(-125), F(2000), TRUE>>,
     <<F(0), F(1000), FALSE>>}

CallScrolls == {F(-50), F(3), F(50)}

\* Constructor arguments.
CtorPositions == {Vec3(0, 0, F(5))}

CtorPitches == {PITCH, F(100)}

Call(op, dir, x, y, flag) == [op |-> op, dir |-> dir, x |-> x, y |-> y, flag |-> flag]

Record(call, ret) ==
    trace' = Append(trace, [call |-> call, before |-> camera, after |-> camera', ret |-> ret])

CameraInit ==
    /\ \E position \in CtorPositions, pitch \in CtorPitches :
          camera = Camera(position, Vec3(0, SCALE, 0), YAW, pitch)
    /\ trace = <<>>
    /\ view = Mat4
    /\ lastX = 0 /\ lastY = 0 /\ firstMouse = TRUE /\ cameraActive = FALSE
    /\ deltaTime = 0 /\ keys = {} /\ wantCaptureMouse = FALSE
    /\ shouldClose = FALSE /\ entities = <<>> /\ activeCamera = 0
    /\ selectedEntity = 0 /\ projection = Mat4 /\ pc = "calls" /\ events = 0
    /\ MathIdle
    /\ ObjectsIdle

CallKeyboard ==
    /\ Len(trace) < MaxCalls
    /\ \E direction \in Camera_Movement, dt \in CallDeltaTimes :
          /\ camera' = processKeyboard(camera, direction, dt)
          /\ Record(Call("processKeyboard", direction, dt, 0, FALSE), <<>>)
    /\ UNCHANGED <<loopVars, view, mathVars, objectVars>>

CallMouseMovement ==
    /\ Len(trace) < MaxCalls
    /\ \E d \in CallLooks :
          /\ camera' = processMouseMovement(camera, d[1], d[2], d[3])
          /\ Record(Call("processMouseMovement", "", d[1], d[2], d[3]), <<>>)
    /\ UNCHANGED <<loopVars, view, mathVars, objectVars>>

CallMouseScroll ==
    /\ Len(trace) < MaxCalls
    /\ \E yoffset \in CallScrolls :
          /\ camera' = processMouseScroll(camera, yoffset)
          /\ Record(Call("processMouseScroll", "", 0, yoffset, FALSE), <<>>)
    /\ UNCHANGED <<loopVars, view, mathVars, objectVars>>

\* getViewMatrix() is not const, but assigns no member.
CallGetViewMatrix ==
    /\ Len(trace) < MaxCalls
    /\ view' = getViewMatrix(camera)
    /\ camera' = camera
    /\ Record(Call("getViewMatrix", "", 0, 0, FALSE), view')
    /\ UNCHANGED <<loopVars, mathVars, objectVars>>

CameraNext ==
    \/ CallKeyboard
    \/ CallMouseMovement
    \/ CallMouseScroll
    \/ CallGetViewMatrix

SpecCamera == CameraInit /\ [][CameraNext]_vars

\* ---------------------------------------------------------------------
\* The frame loop of main() with its input callbacks
\* ---------------------------------------------------------------------

\* The most callbacks one glfwPollEvents delivers.
MaxEvents == 2

\* What the environment supplies: frame times, cursor positions, scroll
\* steps, positions typed into the Properties window, and the keys the user
\* touches.
FrameTimes == {F(1)}

CursorPositions == {<<F(960), F(540)>>, <<F(1085), F(-1460)>>}

Scrolls == {F(3), F(50)}

UIPositions == {Vec3(0, 0, 0), Vec3(0, 0, F(5))}

Keys == {"W", "D", "ESCAPE"}

\* CameraEntity::updateCamera()
updateCamera(e) ==
    [e EXCEPT !.camera = updateCameraVectors([e.camera EXCEPT !.Position = e.position])]

\* The key tests of processInput, in the order of the code.
KeyStep(c, down, key, direction, dt) ==
    IF key \in down THEN processKeyboard(c, direction, dt) ELSE c

processInput(c, down, active, dt) ==
    IF active
    THEN KeyStep(KeyStep(KeyStep(KeyStep(c, down, "W", "FORWARD", dt),
                                 down, "S", "BACKWARD", dt),
                         down, "A", "LEFT", dt),
                 down, "D", "RIGHT", dt)
    ELSE c

\* Loop head: the timing lines and processInput(window).
FrameInput ==
    /\ pc = "input"
    /\ \E dt \in FrameTimes :
          /\ deltaTime' = dt
          /\ camera' = processInput(camera, keys, cameraActive, dt)
    /\ shouldClose' = (shouldClose \/ (cameraActive /\ "ESCAPE" \in keys))
    /\ pc' = "sync"
    /\ UNCHANGED <<lastX, lastY, firstMouse, cameraActive, keys, wantCaptureMouse,
                   entities, activeCamera, selectedEntity, projection, view,
                   events, trace, mathVars, objectVars>>

\* if (scene.activeCamera) { activeCamera->updateCamera(); ... }
SyncedEntities ==
    IF activeCamera # 0
    THEN [entities EXCEPT ![activeCamera] = updateCamera(@)]
    ELSE entities

\* ... camera = scene.activeCamera->camera;
SyncCamera ==
    /\ pc = "sync"
    /\ entities' = SyncedEntities
    /\ camera' = IF activeCamera # 0 THEN entities'[activeCamera].camera ELSE camera
    /\ pc' = "begin"
    /\ UNCHANGED <<lastX, lastY, firstMouse, cameraActive, deltaTime, keys,
                   wantCaptureMouse, shouldClose, activeCamera, selectedEntity,
                   projection, view, events, trace, mathVars, objectVars>>

\* uiManager.beginFrame(): ImGui::NewFrame() decides whether the UI wants
\* the mouse, from where the cursor is.
BeginFrame ==
    /\ pc = "begin"
    /\ wantCaptureMouse' \in BOOLEAN
    /\ pc' = "ui"
    /\ UNCHANGED <<camera, lastX, lastY, firstMouse, cameraActive, deltaTime, keys,
                   shouldClose, entities, activeCamera, selectedEntity,
                   projection, view, events, trace, mathVars, objectVars>>

\* uiManager.renderUI(scene) -> Scene::drawSceneUI(), with no widget used.
RenderUI ==
    /\ pc = "ui"
    /\ pc' = "render"
    /\ UNCHANGED <<camera, lastX, lastY, firstMouse, cameraActive, deltaTime, keys,
                   wantCaptureMouse, shouldClose, entities, activeCamera,
                   selectedEntity, projection, view, events, trace, mathVars, objectVars>>

\* drawSceneUI(): the Selectable of entities[i] is clicked.
Selectable(i) ==
    /\ selectedEntity' = i
    /\ activeCamera' = IF entities[i].kind = "camera" THEN i ELSE activeCamera

\* drawSceneUI(): the Selectable of entity i is clicked.
RenderUISelect ==
    /\ pc = "ui"
    /\ \E i \in 1..Len(entities) : Selectable(i)
    /\ pc' = "render"
    /\ UNCHANGED <<camera, lastX, lastY, firstMouse, cameraActive, deltaTime, keys,
                   wantCaptureMouse, shouldClose, entities, projection, view,
                   events, trace, mathVars, objectVars>>

\* drawSceneUI(): selectedEntity->drawUI(), the Position field is dragged.
\* ModelEntity::drawUI() edits the position member ModelEntity declares.
RenderUIDragPosition ==
    /\ pc = "ui"
    /\ selectedEntity # 0
    /\ \E p \in UIPositions :
          entities' = [entities EXCEPT ![selectedEntity] =
                         IF @.kind = "model" THEN [@ EXCEPT !.modelPosition = p]
                         ELSE [@ EXCEPT !.position = p]]
    /\ pc' = "render"
    /\ UNCHANGED <<camera, lastX, lastY, firstMouse, cameraActive, deltaTime, keys,
                   wantCaptureMouse, shouldClose, activeCamera, selectedEntity,
                   projection, view, events, trace, mathVars, objectVars>>

\* CameraEntity::drawUI(): the "Active" checkbox is clicked.
RenderUIToggleActive ==
    /\ pc = "ui"
    /\ selectedEntity # 0
    /\ entities[selectedEntity].kind = "camera"
    /\ entities' = [entities EXCEPT ![selectedEntity].isActive = ~@]
    /\ pc' = "render"
    /\ UNCHANGED <<camera, lastX, lastY, firstMouse, cameraActive, deltaTime, keys,
                   wantCaptureMouse, shouldClose, activeCamera, selectedEntity,
                   projection, view, events, trace, mathVars, objectVars>>

HasModelEntity == \E i \in 1..Len(entities) : entities[i].kind = "model"

\* The 3D rendering pass: projection and view for every ModelEntity, from
\* the global camera; then endFrame and glfwSwapBuffers.
Render3D ==
    /\ pc = "render"
    /\ projection' = IF HasModelEntity
                     THEN create_perspective(degrees_to_radians(camera.Zoom),
                                             Div(F(SCR_WIDTH), F(SCR_HEIGHT)),
                                             SCALE \div 10, F(100))
                     ELSE projection
    /\ view' = IF HasModelEntity THEN getViewMatrix(camera) ELSE view
    /\ pc' = "poll"
    /\ events' = 0
    /\ UNCHANGED <<camera, lastX, lastY, firstMouse, cameraActive, deltaTime, keys,
                   wantCaptureMouse, shouldClose, entities, activeCamera,
                   selectedEntity, trace, mathVars, objectVars>>

Delivered == pc = "poll" /\ events < MaxEvents /\ events' = events + 1 /\ pc' = pc

\* mouse_callback without the firstMouse re-anchoring of lastX and lastY.
MouseCallback_NoAnchor ==
    /\ Delivered
    /\ \E cursor \in CursorPositions :
          IF ~cameraActive \/ wantCaptureMouse
          THEN UNCHANGED <<camera, lastX, lastY, firstMouse>>
          ELSE /\ firstMouse' = FALSE
               /\ lastX' = cursor[1]
               /\ lastY' = cursor[2]
               /\ camera' = processMouseMovement(camera, cursor[1] - lastX,
                                                 lastY - cursor[2], TRUE)
    /\ UNCHANGED <<cameraActive, deltaTime, keys, wantCaptureMouse, shouldClose,
                   entities, activeCamera, selectedEntity, projection, view,
                   trace, mathVars, objectVars>>

\* mouse_callback(window, xposIn, yposIn)
MouseCallback ==
    /\ Delivered
    /\ \E cursor \in CursorPositions :
          IF ~cameraActive \/ wantCaptureMouse
          THEN UNCHANGED <<camera, lastX, lastY, firstMouse>>
          ELSE LET xpos    == cursor[1]
                   ypos    == cursor[2]
                   fromX   == IF firstMouse THEN xpos ELSE lastX
                   fromY   == IF firstMouse THEN ypos ELSE lastY
                   xoffset == xpos - fromX
                   yoffset == fromY - ypos
               IN  /\ firstMouse' = FALSE
                   /\ lastX' = xpos
                   /\ lastY' = ypos
                   /\ camera' = processMouseMovement(camera, xoffset, yoffset, TRUE)
    /\ UNCHANGED <<cameraActive, deltaTime, keys, wantCaptureMouse, shouldClose,
                   entities, activeCamera, selectedEntity, projection, view,
                   trace, mathVars, objectVars>>

\* mouse_button_callback(window, button, action, mods)
MouseButtonCallback ==
    /\ Delivered
    /\ \E button \in {"RIGHT", "LEFT"}, action \in {"PRESS", "RELEASE"} :
          IF button = "RIGHT" /\ ~wantCaptureMouse
          THEN /\ cameraActive' = (action = "PRESS")
               /\ firstMouse' = IF action = "PRESS" THEN TRUE ELSE firstMouse
          ELSE UNCHANGED <<cameraActive, firstMouse>>
    /\ UNCHANGED <<camera, lastX, lastY, deltaTime, keys, wantCaptureMouse,
                   shouldClose, entities, activeCamera, selectedEntity,
                   projection, view, trace, mathVars, objectVars>>

\* scroll_callback(window, xoffset, yoffset)
ScrollCallback ==
    /\ Delivered
    /\ \E yoffset \in Scrolls :
          camera' = IF wantCaptureMouse THEN camera ELSE processMouseScroll(camera, yoffset)
    /\ UNCHANGED <<lastX, lastY, firstMouse, cameraActive, deltaTime, keys,
                   wantCaptureMouse, shouldClose, entities, activeCamera,
                   selectedEntity, projection, view, trace, mathVars, objectVars>>

\* A key goes down or up: the state glfwGetKey reads in processInput.
KeyEvent ==
    /\ Delivered
    /\ \E key \in Keys : keys' = IF key \in keys THEN keys \ {key} ELSE keys \cup {key}
    /\ UNCHANGED <<camera, lastX, lastY, firstMouse, cameraActive, deltaTime,
                   wantCaptureMouse, shouldClose, entities, activeCamera,
                   selectedEntity, projection, view, trace, mathVars, objectVars>>

\* glfwPollEvents() returns; the loop condition is tested.
PollDone ==
    /\ pc = "poll"
    /\ pc' = IF shouldClose THEN "done" ELSE "input"
    /\ UNCHANGED <<camera, lastX, lastY, firstMouse, cameraActive, deltaTime, keys,
                   wantCaptureMouse, shouldClose, entities, activeCamera,
                   selectedEntity, projection, view, events, trace, mathVars, objectVars>>

Init == LoopInit /\ trace = <<>> /\ MathIdle

Next ==
    \/ FrameInput
    \/ SyncCamera
    \/ BeginFrame
    \/ RenderUI
    \/ RenderUISelect
    \/ RenderUIDragPosition
    \/ RenderUIToggleActive
    \/ Render3D
    \/ MouseCallback
    \/ MouseButtonCallback
    \/ ScrollCallback
    \/ KeyEvent
    \/ PollDone

Spec == Init /\ [][Next]_vars

\* ---------------------------------------------------------------------
\* The Scene class under any sequence of calls
\* ---------------------------------------------------------------------

\* The most entities a scene is given.
MaxEntities == 4

\* Scene(): the default camera, active, in cameras and in entities.
SceneInit ==
    /\ entities = <<[CameraEntity EXCEPT !.isActive = TRUE]>>
    /\ cameras = <<1>>
    /\ activeCamera = 1
    /\ selectedEntity = 0
    /\ lights = <<>>
    /\ shader = NoUniforms
    /\ meshes = <<>>
    /\ camera = Camera(Vec3(0, 0, 0), Vec3(0, SCALE, 0), YAW, PITCH)
    /\ trace = <<>>
    /\ view = Mat4
    /\ lastX = 0 /\ lastY = 0 /\ firstMouse = TRUE /\ cameraActive = FALSE
    /\ deltaTime = 0 /\ keys = {} /\ wantCaptureMouse = FALSE
    /\ shouldClose = FALSE /\ projection = Mat4 /\ pc = "scene" /\ events = 0
    /\ MathIdle

\* Scene::addEntity(entity); the new object is entities[Len(entities) + 1].
addEntity(entity) ==
    /\ entities' = Append(entities, entity)
    /\ cameras' = IF entity.kind = "camera"
                  THEN Append(cameras, Len(entities) + 1)
                  ELSE cameras

\* Scene::setActiveCamera(camera), camera being entities[i].
setActiveCamera(i) ==
    /\ activeCamera' = i
    /\ entities' = [[k \in 1..Len(entities) |->
                        IF k = activeCamera
                        THEN [entities[k] EXCEPT !.isActive = FALSE]
                        ELSE entities[k]]
                    EXCEPT ![i].isActive = TRUE]

SceneAddEntity ==
    /\ pc = "scene"
    /\ Len(entities) < MaxEntities
    /\ \E entity \in {CameraEntity, ModelEntity} : addEntity(entity)
    /\ UNCHANGED <<camera, lastX, lastY, firstMouse, cameraActive, deltaTime, keys,
                   wantCaptureMouse, shouldClose, activeCamera, selectedEntity,
                   projection, view, pc, events, trace, mathVars,
                   lights, shader, meshes>>

SceneSetActiveCamera ==
    /\ pc = "scene"
    /\ \E n \in 1..Len(cameras) : setActiveCamera(cameras[n])
    /\ UNCHANGED <<camera, lastX, lastY, firstMouse, cameraActive, deltaTime, keys,
                   wantCaptureMouse, shouldClose, selectedEntity,
                   projection, view, pc, events, trace, mathVars, objectVars>>

SceneSelect ==
    /\ pc = "scene"
    /\ \E i \in 1..Len(entities) : Selectable(i)
    /\ UNCHANGED <<camera, lastX, lastY, firstMouse, cameraActive, deltaTime, keys,
                   wantCaptureMouse, shouldClose, entities,
                   projection, view, pc, events, trace, mathVars, objectVars>>

SceneNext ==
    \/ SceneAddEntity
    \/ SceneSetActiveCamera
    \/ SceneSelect

SpecScene == SceneInit /\ [][SceneNext]_vars

\* ---------------------------------------------------------------------
\* ResourceManager::loadMesh under any sequence of calls
\* ---------------------------------------------------------------------

\* The longest vertex list and the longest index list passed to loadMesh.
MaxVertices == 2

\* Vertex data: each vertex stands for one Position/Normal/TexCoords triple.
Vertices == {"v0", "v1"}

\* The sequences over S of 1 to n elements.
SeqUpTo(S, n) == UNION {[1..k -> S] : k \in 1..n}

VertexLists == SeqUpTo(Vertices, MaxVertices)

IndexLists == {<<0>>, <<0, 1>>, <<1, 0>>}

\* Mesh::Mesh(vertices, indices)
Mesh(vertices, indices) == [vertices |-> vertices, indices |-> indices]

\* std::to_string(vertices.size()) + "_" + std::to_string(indices.size())
MeshKey(vertices, indices) ==
    ToString(Len(vertices)) \o "_" \o ToString(Len(indices))

ResourcesInit ==
    /\ meshes = <<>>
    /\ fn = "none"
    /\ args = <<>>
    /\ result = <<>>
    /\ done = FALSE
    /\ cameras = <<>>
    /\ lights = <<>>
    /\ shader = NoUniforms
    /\ camera = Camera(Vec3(0, 0, 0), Vec3(0, SCALE, 0), YAW, PITCH)
    /\ trace = <<>>
    /\ view = Mat4
    /\ lastX = 0 /\ lastY = 0 /\ firstMouse = TRUE /\ cameraActive = FALSE
    /\ deltaTime = 0 /\ keys = {} /\ wantCaptureMouse = FALSE
    /\ shouldClose = FALSE /\ entities = <<>> /\ activeCamera = 0
    /\ selectedEntity = 0 /\ projection = Mat4 /\ pc = "resources" /\ events = 0

\* ResourceManager::loadMesh(vertices, indices); result is the Mesh the
\* returned shared_ptr points to.
loadMesh(vertices, indices) ==
    LET key == MeshKey(vertices, indices)
    IN  IF key \in DOMAIN meshes
        THEN /\ result' = meshes[key]
             /\ meshes' = meshes
        ELSE LET mesh == Mesh(vertices, indices)
             IN  /\ meshes' = [k \in DOMAIN meshes \cup {key} |->
                                  IF k = key THEN mesh ELSE meshes[k]]
                 /\ result' = mesh

CallLoadMesh ==
    /\ pc = "resources"
    /\ \E vertices \in VertexLists, indices \in IndexLists :
          /\ fn' = "loadMesh"
          /\ args' = [vertices |-> vertices, indices |-> indices]
          /\ loadMesh(vertices, indices)
    /\ done' = TRUE
    /\ UNCHANGED <<camera, loopVars, view, trace, cameras, lights, shader>>

ResourcesNext == CallLoadMesh

SpecResources == ResourcesInit /\ [][ResourcesNext]_vars

\* ---------------------------------------------------------------------
\* The lights of a Scene: addLight and setupLightsInShader
\* ---------------------------------------------------------------------

\* The most lights a scene is given: one more than the shader has room for.
MaxLights == 9

\* Scene::setupLightsInShader: int MAX_LIGHTS
MAX_LIGHTS == 8

\* Light::Type, the values the tests add.
LightTypes == {"POINT", "SPOT"}

Min(a, b) == IF a < b THEN a ELSE b

\* Scene::addLight(light); the new object is entities[Len(entities) + 1].
addLight(light) ==
    /\ lights' = Append(lights, Len(entities) + 1)
    /\ addEntity(light)

\* Light::setupInShader(shader, index): the uniforms of lights[index].
setupInShader(light, sh, index) ==
    [sh EXCEPT !.lights = [i \in DOMAIN sh.lights \cup {index} |->
                              IF i = index
                              THEN [type |-> light.type, enabled |-> light.enabled]
                              ELSE sh.lights[i]]]

\* The loop of setupLightsInShader, from index i up to lightCount - 1.
RECURSIVE SetupFrom(_, _, _)
SetupFrom(sh, i, lightCount) ==
    IF i < lightCount
    THEN SetupFrom(setupInShader(entities[lights[i + 1]], sh, i), i + 1, lightCount)
    ELSE sh

\* Variant: every light of the scene is uploaded.
setupLightsInShader_NoClamp(sh) ==
    LET lightCount == Len(lights)
    IN  SetupFrom([sh EXCEPT !.activeLightCount = lightCount], 0, lightCount)

\* Scene::setupLightsInShader(shader)
setupLightsInShader(sh) ==
    LET lightCount == Min(Len(lights), MAX_LIGHTS)
    IN  SetupFrom([sh EXCEPT !.activeLightCount = lightCount], 0, lightCount)

SceneAddLight ==
    /\ pc \in {"scene", "uploaded"}
    /\ Len(lights) < MaxLights
    /\ \E type \in LightTypes : addLight(Light(type))
    /\ pc' = "scene"
    /\ UNCHANGED <<camera, lastX, lastY, firstMouse, cameraActive, deltaTime, keys,
                   wantCaptureMouse, shouldClose, activeCamera, selectedEntity,
                   projection, view, events, trace, mathVars, shader, meshes>>

SceneSetupLights ==
    /\ pc \in {"scene", "uploaded"}
    /\ shader' = setupLightsInShader(shader)
    /\ pc' = "uploaded"
    /\ UNCHANGED <<camera, lastX, lastY, firstMouse, cameraActive, deltaTime, keys,
                   wantCaptureMouse, shouldClose, entities, activeCamera,
                   selectedEntity, projection, view, events, trace, mathVars,
                   cameras, lights, meshes>>

LightsNext ==
    \/ SceneAddLight
    \/ SceneSetupLights

SpecLights == SceneInit /\ [][LightsNext]_vars

\* ---------------------------------------------------------------------
\* Calls of the pure functions of the alg library
\* ---------------------------------------------------------------------

\* Arguments of lookAt.
Eyes ==
    {Vec3(0, 0, F(5)), Vec3(F(5), 0, 0), Vec3(F(3), 0, F(4)), Vec3(0, F(5), 0),
     Vec3(0, F(3), F(4)), Vec3(0, 0, 0)}

Targets == {Vec3(0, 0, 0), Vec3(0, 0, F(-5)), Vec3(F(5), 0, 0)}

Ups == {Vec3(0, SCALE, 0), Vec3(0, 0, SCALE)}

\* Arguments of create_perspective: field of view in degrees, aspect ratio,
\* near and far plane.
Fovs == {F(45), F(60), F(90)}

Aspects == {SCALE, Div(F(SCR_WIDTH), F(SCR_HEIGHT))}

Nears == {SCALE \div 10, SCALE}

Fars == {F(10), F(100)}

\* Operands of the matrix products: the identity, a translation, a scale,
\* rotations by a quarter turn and by one radian, a view and a projection.
Matrices ==
    {Mat4,
     create_translation(Vec3(F(1), F(2), F(3))),
     create_scale(Vec3(F(2), SCALE, SCALE \div 2)),
     create_rotation_z(HALF_PI),
     create_rotation_x(SCALE),
     lookAt(Vec3(0, 0, F(5)), Vec3(0, 0, 0), Vec3(0, SCALE, 0)),
     create_perspective(HALF_PI, SCALE, SCALE \div 10, F(100))}

Points == {Vec3(F(1), F(2), F(3)), Vec3(0, 0, F(-5)), Vec3(SCALE \div 2, -SCALE, F(2))}

\* The functions of the library that are called.
Functions ==
    {"lookAt", "create_perspective", "multiply", "transform", "create_rotation_xyz",
     "create_translation", "create_rotation_x", "quat_multiply", "inverse", "slerp",
     "normalized", "normalize", "quat_normalized", "getTransformMatrix"}

\* Entities whose model matrix is asked for: camera entities, which use
\* Entity::getTransformMatrix, and model entities, with the transform
\* members set to a few values.
TransformPositions == {Vec3(0, 0, 0), Vec3(F(1), F(2), F(3))}

TransformRotations == {Vec3(0, 0, 0), Vec3(0, HALF_PI, 0)}

TransformScales == {Vec3(SCALE, SCALE, SCALE), Vec3(F(2), SCALE, SCALE \div 2)}

TransformEntities ==
    {[CameraEntity EXCEPT !.position = p, !.rotation = r, !.scale = s] :
        p \in TransformPositions, r \in TransformRotations, s \in TransformScales}
    \cup
    {[ModelEntity EXCEPT !.modelPosition = p, !.modelRotation = r, !.modelScale = s] :
        p \in TransformPositions, r \in TransformRotations, s \in TransformScales}

\* Quaternions to normalize: zero, at the epsilon 0.0001, just above it,
\* and of ordinary size.
Quats ==
    {Quat(0, 0, 0, 0), Quat(1, 0, 0, 0), Quat(0, 0, -1, 0), Quat(2, 0, 0, 0),
     Quat(3, 4, 0, 0), Quat(F(1), F(2), F(3), F(4)), Quat(F(2), 0, 0, 0),
     Quat(0, F(-3), 0, F(4)), Quat(SCALE \div 2, SCALE \div 2, SCALE \div 2, SCALE \div 2)}

\* Vectors to normalize: the zero vector, axis-aligned and general ones,
\* short and long.
Vectors ==
    {Vec3(0, 0, 0), Vec3(F(3), 0, F(4)), Vec3(F(1), F(2), F(3)), Vec3(0, 0, F(-5)),
     Vec3(SCALE \div 2, -SCALE, F(2)), Vec3(3000, 4000, 0), Vec3(F(100), 0, 0),
     Vec3(0, -SCALE \div 10, 0), Vec3(F(-2), F(3), F(6))}

\* Unit quaternions: the identity, half turns, a third of a turn about
\* (1,1,1), rotations whose components are exact, rotations built from an
\* axis and an angle, and quaternions with a negative scalar part.
UnitQuats ==
    {Quat(SCALE, 0, 0, 0),
     Quat(0, SCALE, 0, 0),
     Quat(0, 0, SCALE, 0),
     Quat(SCALE \div 2, SCALE \div 2, SCALE \div 2, SCALE \div 2),
     Quat(6000, 8000, 0, 0),
     Quat(-6000, 0, 8000, 0),
     Quat(-SCALE \div 2, -SCALE \div 2, -SCALE \div 2, -SCALE \div 2),
     from_axis_angle(Vec3(0, 0, SCALE), HALF_PI),
     from_axis_angle(Vec3(SCALE, 0, 0), SCALE)}

\* Interpolation factors.
Factors == {0, SCALE \div 2, SCALE}

\* Angles in radians: quarter and half turns, one radian, three radians.
Angles == {0, HALF_PI, -HALF_PI, PI, SCALE, -SCALE, F(3), SCALE \div 4}

EulerAngles == {Vec3(x, y, z) : x \in {0, HALF_PI, SCALE}, y \in {0, HALF_PI, SCALE}, z \in {0, HALF_PI, SCALE}}

Translations == {Vec3(0, 0, 0), Vec3(F(1), F(2), F(3)), Vec3(F(-5), SCALE \div 2, F(100))}

MathArgs(f) ==
    CASE f = "lookAt" ->
           {[eye |-> e, target |-> t, up |-> u] : e \in Eyes, t \in Targets, u \in Ups}
      [] f = "create_perspective" ->
           {[fov |-> degrees_to_radians(v), aspect |-> a, near |-> n, far |-> r] :
              v \in Fovs, a \in Aspects, n \in Nears, r \in Fars}
      [] f = "multiply" -> {[a |-> a, b |-> b] : a \in Matrices, b \in Matrices}
      [] f = "transform" -> {[m |-> m, v |-> v] : m \in Matrices, v \in Points}
      [] f = "create_rotation_xyz" -> {[angles |-> a] : a \in EulerAngles}
      [] f = "create_translation" -> {[t |-> t] : t \in Translations}
      [] f = "create_rotation_x" -> {[angle |-> a] : a \in Angles}
      [] f = "quat_multiply" -> {[q1 |-> p, q2 |-> q] : p \in UnitQuats, q \in UnitQuats}
      [] f = "inverse" -> {[q |-> q] : q \in UnitQuats}
      [] f = "normalized" -> {[v |-> v] : v \in Vectors}
      [] f = "normalize" -> {[v |-> v] : v \in Vectors}
      [] f = "quat_normalized" -> {[q |-> q] : q \in Quats}
      [] f = "getTransformMatrix" -> {[e |-> e] : e \in TransformEntities}
      [] f = "slerp" -> {[q0 |-> p, q1 |-> q, t |-> t] : p \in UnitQuats, q \in UnitQuats, t \in Factors}

MathInit ==
    /\ \E f \in Functions : fn = f /\ args \in MathArgs(f)
    /\ result = <<>>
    /\ done = FALSE
    /\ camera = Camera(Vec3(0, 0, 0), Vec3(0, SCALE, 0), YAW, PITCH)
    /\ trace = <<>>
    /\ view = Mat4
    /\ lastX = 0 /\ lastY = 0 /\ firstMouse = TRUE /\ cameraActive = FALSE
    /\ deltaTime = 0 /\ keys = {} /\ wantCaptureMouse = FALSE
    /\ shouldClose = FALSE /\ entities = <<>> /\ activeCamera = 0
    /\ selectedEntity = 0 /\ projection = Mat4 /\ pc = "math" /\ events = 0
    /\ ObjectsIdle

Returns(value) ==
    /\ ~done
    /\ result' = value
    /\ done' = TRUE
    /\ UNCHANGED <<camera, loopVars, view, trace, fn, args, objectVars>>

ApplyLookAt ==
    /\ fn = "lookAt"
    /\ Returns(lookAt(args.eye, args.target, args.up))

ApplyCreatePerspective ==
    /\ fn = "create_perspective"
    /\ Returns(create_perspective(args.fov, args.aspect, args.near, args.far))

ApplyMultiply ==
    /\ fn = "multiply"
    /\ Returns(MulMat4(args.a, args.b))

ApplyTransform ==
    /\ fn = "transform"
    /\ Returns(MulMat4Vec3(args.m, args.v))

ApplyCreateRotationXYZ ==
    /\ fn = "create_rotation_xyz"
    /\ Returns(create_rotation_xyz(args.angles))

ApplyCreateTranslation ==
    /\ fn = "create_translation"
    /\ Returns(create_translation(args.t))

ApplyCreateRotationX ==
    /\ fn = "create_rotation_x"
    /\ Returns(create_rotation_x(args.angle))

ApplyQuatMultiply ==
    /\ fn = "quat_multiply"
    /\ Returns(QMul(args.q1, args.q2))

ApplyInverse ==
    /\ fn = "inverse"
    /\ Returns(inverse(args.q))

ApplySlerp ==
    /\ fn = "slerp"
    /\ Returns(slerp(args.q0, args.q1, args.t))

ApplyNormalized ==
    /\ fn = "normalized"
    /\ Returns(normalized(args.v))

ApplyNormalize ==
    /\ fn = "normalize"
    /\ Returns(normalize(args.v))

ApplyQuatNormalized ==
    /\ fn = "quat_normalized"
    /\ Returns(Quat_normalized(args.q))

ApplyGetTransformMatrix ==
    /\ fn = "getTransformMatrix"
    /\ Returns(getTransformMatrix(args.e))

MathNext ==
    \/ ApplyLookAt
    \/ ApplyCreatePerspective
    \/ ApplyMultiply
    \/ ApplyTransform
    \/ ApplyCreateRotationXYZ
    \/ ApplyCreateTranslation
    \/ ApplyCreateRotationX
    \/ ApplyQuatMultiply
    \/ ApplyInverse
    \/ ApplySlerp
    \/ ApplyNormalized
    \/ ApplyNormalize
    \/ ApplyQuatNormalized
    \/ ApplyGetTransformMatrix

SpecMath == MathInit /\ [][MathNext]_vars

\* ---------------------------------------------------------------------
\* Properties of the Camera class (checked under SpecCamera)
\* ---------------------------------------------------------------------

Calls == 1..Len(trace)

DefaultCamera == Camera(Vec3(0, 0, F(5)), Vec3(0, SCALE, 0), YAW, PITCH)

InitialCamera == IF trace = <<>> THEN camera ELSE trace[1].before

PitchInRange(c) == c.Pitch >= F(-89) /\ c.Pitch <= F(89)

AllLooksConstrained ==
    \A i \in Calls : trace[i].call.op = "processMouseMovement" => trace[i].call.flag

\* C1: from a camera whose Pitch is within [-89, 89], after any sequence of
\* processMouseMovement calls that all constrain the pitch, interleaved with
\* processKeyboard and processMouseScroll calls, Pitch is within [-89, 89].
C1_PitchStaysInRange ==
    (PitchInRange(InitialCamera) /\ AllLooksConstrained) => PitchInRange(camera)

\* A constrained look has pushed the pitch past both limits.
C1_Witness ==
    /\ PitchInRange(InitialCamera) /\ AllLooksConstrained
    /\ \E i, j \in Calls :
          /\ trace[i].call.op = "processMouseMovement"
          /\ trace[i].before.Pitch + Mul(trace[i].call.y, SENSITIVITY) > F(89)
          /\ trace[i].after.Pitch = F(89)
          /\ trace[j].call.op = "processMouseMovement"
          /\ trace[j].before.Pitch + Mul(trace[j].call.y, SENSITIVITY) < F(-89)
          /\ trace[j].after.Pitch = F(-89)

IsLook1000(i) ==
    /\ i = 1
    /\ trace[i].before = DefaultCamera
    /\ trace[i].call = Call("processMouseMovement", "", F(0), F(1000), TRUE)

\* C2 as stated: on the camera constructed at (0,0,5) with the defaults, the
\* single call processMouseMovement(0, 1000, true) leaves Pitch at 89 degrees.
C2_Original ==
    \A i \in Calls : IsLook1000(i) => trace[i].after.Pitch = F(89)

\* C2 amended: that call leaves Pitch at 80 degrees, which is 1000 times the
\* default sensitivity 0.08 and below the limit of 89, so nothing is clamped.
C2_PitchIs80 ==
    \A i \in Calls : IsLook1000(i) => trace[i].after.Pitch = F(80)

C2_Witness == trace # <<>> /\ IsLook1000(1) /\ Len(trace) = 1

Clamp(v, lo, hi) == IF v < lo THEN lo ELSE IF v > hi THEN hi ELSE v

\* C3: processMouseScroll(yoffset) sets Zoom to Zoom - yoffset clamped to
\* [1, 45], and from the initial Zoom of 45 every sequence of camera
\* operations leaves Zoom within [1, 45].
C3_ZoomClamped ==
    /\ \A i \in Calls :
          trace[i].call.op = "processMouseScroll" =>
             trace[i].after.Zoom = Clamp(trace[i].before.Zoom - trace[i].call.y, F(1), F(45))
    /\ camera.Zoom >= F(1) /\ camera.Zoom <= F(45)

\* Zoom has been decremented inside the range and clamped at both ends.
C3_Witness ==
    \E i, j, k \in Calls :
       /\ trace[i].call.op = "processMouseScroll" /\ trace[i].after.Zoom = F(42)
       /\ trace[j].call.op = "processMouseScroll" /\ trace[j].after.Zoom = F(1)
          /\ trace[j].before.Zoom - trace[j].call.y < F(1)
       /\ trace[k].call.op = "processMouseScroll" /\ trace[k].after.Zoom = F(45)
          /\ trace[k].before.Zoom - trace[k].call.y > F(45)

\* The displacement C5 states for a call: +-Front or +-Right times speed * dt.
Displacement(c, direction, dt) ==
    LET step == Mul(c.MovementSpeed, dt)
    IN  CASE direction = "FORWARD"  -> VScale(c.Front, step)
          [] direction = "BACKWARD" -> VScale(c.Front, -step)
          [] direction = "LEFT"     -> VScale(c.Right, -step)
          [] direction = "RIGHT"    -> VScale(c.Right, step)

IsMove(i, direction) ==
    trace[i].call.op = "processKeyboard" /\ trace[i].call.dir = direction

\* C5: processKeyboard(direction, dt) moves Position by +Front*speed*dt
\* (forward), -Front*speed*dt (backward), -Right*speed*dt (left) or
\* +Right*speed*dt (right); the default camera at (0,0,5) is at (0,0,2.5)
\* after forward with dt = 1; forward then backward with the same dt
\* restores the position.
C5_Movement ==
    /\ \A i \in Calls :
          trace[i].call.op = "processKeyboard" =>
             trace[i].after.Position =
                VAdd(trace[i].before.Position,
                     Displacement(trace[i].before, trace[i].call.dir, trace[i].call.x))
    /\ \A i \in Calls :
          (IsMove(i, "FORWARD") /\ trace[i].call.x = F(1) /\ trace[i].before = DefaultCamera)
             => trace[i].after.Position = Vec3(0, 0, F(5) \div 2)
    /\ \A i \in Calls :
          (i + 1 \in Calls /\ IsMove(i, "FORWARD") /\ IsMove(i + 1, "BACKWARD")
             /\ trace[i].call.x = trace[i + 1].call.x)
             => trace[i + 1].after.Position = trace[i].before.Position

\* Forward by one second from the default camera, then backward, after a
\* half-second step along Right.
C5_Witness ==
    /\ Len(trace) = 3
    /\ trace[1].before = DefaultCamera
    /\ IsMove(1, "FORWARD") /\ trace[1].call.x = F(1)
    /\ IsMove(2, "BACKWARD") /\ trace[2].call.x = F(1)
    /\ IsMove(3, "RIGHT") /\ trace[3].call.x = F(1) \div 2
    /\ camera.Position = Vec3(F(5) \div 4, 0, F(5))

\* The basis as a function of yaw, pitch and world-up alone (spec 4.4).
BasisOf(yaw, pitch, worldUp) ==
    LET cy    == Cos(degrees_to_radians(yaw))
        sy    == Sin(degrees_to_radians(yaw))
        cp    == Cos(degrees_to_radians(pitch))
        sp    == Sin(degrees_to_radians(pitch))
        front == normalized(Vec3(Mul(cy, cp), sp, Mul(sy, cp)))
        right == normalized(cross(front, worldUp))
        up    == normalized(cross(right, front))
    IN  <<front, right, up>>

Basis(c) == <<c.Front, c.Right, c.Up>>

Earlier == {trace[i].before : i \in Calls} \cup {trace[i].after : i \in Calls}

\* C6: after construction and after every call, Front, Right and Up are the
\* values computed from the current Yaw, Pitch and WorldUp alone: cameras
\* that agree on Yaw, Pitch and WorldUp agree on Front, Right and Up,
\* whatever basis they had before.
C6_BasisFromAngles ==
    /\ Basis(camera) = BasisOf(camera.Yaw, camera.Pitch, camera.WorldUp)
    /\ \A c \in Earlier :
          (c.Yaw = camera.Yaw /\ c.Pitch = camera.Pitch /\ c.WorldUp = camera.WorldUp)
             => Basis(c) = Basis(camera)

\* Two looks brought the camera back to a yaw and pitch it had before,
\* through a different basis.
C6_Witness ==
    /\ Len(trace) = 3
    /\ trace[2].call.op = "processMouseMovement"
    /\ trace[3].call.op = "processMouseMovement"
    /\ camera.Yaw = trace[1].after.Yaw
    /\ camera.Pitch = trace[1].after.Pitch
    /\ trace[2].after.Yaw # camera.Yaw
    /\ Basis(trace[2].after) # Basis(camera)

\* C7: getViewMatrix() returns lookAt(Position, Position + Front, Up) of the
\* camera's current state and changes no camera field.
C7_ViewMatrix ==
    \A i \in Calls :
       trace[i].call.op = "getViewMatrix" =>
          /\ trace[i].ret = lookAt(trace[i].before.Position,
                                   VAdd(trace[i].before.Position, trace[i].before.Front),
                                   trace[i].before.Up)
          /\ trace[i].after = trace[i].before

\* The view matrix was asked for after the camera had moved and turned.
C7_Witness ==
    /\ Len(trace) = 3
    /\ trace[1].call.op = "processKeyboard"
    /\ trace[2].call.op = "processMouseMovement"
    /\ trace[3].call.op = "getViewMatrix"
    /\ trace[3].before.Position # trace[1].before.Position
    /\ trace[3].before.Front # trace[1].before.Front
    /\ view = trace[3].ret

\* ---------------------------------------------------------------------
\* Properties of the frame loop (checked under Spec)
\* ---------------------------------------------------------------------

MoveKeys == {"W", "S", "A", "D"}

\* C4: what processInput and the mouse and scroll callbacks did to the
\* camera is still in the camera when the frame's view and projection are
\* built: the step between processInput and the rendering pass keeps the
\* Yaw, Pitch and Zoom the callbacks left and, when processInput has just
\* applied a movement key, the Position it left.
C4_InputReachesRender ==
    [][pc = "sync" =>
         /\ camera'.Yaw = camera.Yaw
         /\ camera'.Pitch = camera.Pitch
         /\ camera'.Zoom = camera.Zoom
         /\ (cameraActive /\ keys \cap MoveKeys # {}) => camera'.Position = camera.Position]_vars

\* ---------------------------------------------------------------------
\* Properties of the alg library (checked under SpecMath)
\* ---------------------------------------------------------------------

Near(a, b) == Abs(a - b) <= TOL

VNear(a, b) == Near(a.x, b.x) /\ Near(a.y, b.y) /\ Near(a.z, b.z)

Returned(f) == done /\ fn = f

\* C8: for eye # target and up not parallel to eye - target, also when the
\* camera is not aligned with the world axes, M = lookAt(eye, target, up)
\* takes eye to the origin and target to (0, 0, -|eye - target|).
C8_LookAtRecenters ==
    (/\ Returned("lookAt")
     /\ args.eye # args.target
     /\ cross(args.up, VSub(args.eye, args.target)) # Vec3(0, 0, 0))
       => /\ VNear(MulMat4Vec3(result, args.eye), Vec3(0, 0, 0))
          /\ VNear(MulMat4Vec3(result, args.target),
                   Vec3(0, 0, -magnitude(VSub(args.eye, args.target))))

Column(m, c) == Vec3(m[4 * c], m[4 * c + 1], m[4 * c + 2])

IsTestView == args = [eye |-> Vec3(0, 0, F(5)), target |-> Vec3(0, 0, 0), up |-> Vec3(0, SCALE, 0)]

\* C9: for eye = (0,0,5), target = (0,0,0), up = (0,1,0) the three basis
\* columns of lookAt(eye, target, up) are mutually orthogonal unit vectors
\* and the matrix takes eye to the origin.
C9_LookAtOrthonormal ==
    (Returned("lookAt") /\ IsTestView) =>
       /\ \A a, b \in 0..2 :
             dot(Column(result, a), Column(result, b)) = IF a = b THEN SCALE ELSE 0
       /\ MulMat4Vec3(result, args.eye) = Vec3(0, 0, 0)

C9_Witness == Returned("lookAt") /\ IsTestView /\ result[14] = F(-5)

\* C10: create_perspective(fov, aspect, near, far) has m[0] = 1/(aspect *
\* tan(fov/2)), m[5] = 1/tan(fov/2), m[10] = -(far+near)/(far-near),
\* m[11] = -1, m[14] = -(2*far*near)/(far-near), and every other entry,
\* m[15] included, is zero.
C10_PerspectiveEntries ==
    Returned("create_perspective") =>
       LET t == Tan(RoundDiv(args.fov, 2))
       IN  /\ result[0] = Div(SCALE, Mul(args.aspect, t))
           /\ result[5] = Div(SCALE, t)
           /\ result[10] = -Div(args.far + args.near, args.far - args.near)
           /\ result[11] = -SCALE
           /\ result[14] = -Div(Mul(2 * args.far, args.near), args.far - args.near)
           /\ \A i \in (0..15) \ {0, 5, 10, 11, 14} : result[i] = 0

\* The w of the clip-space position P * (x, y, z, 1): row 3 of the matrix,
\* which operator*(Mat4, Vec3) leaves out and the vertex stage computes.
ClipW(m, v) == Mul(m[3], v.x) + Mul(m[7], v.y) + Mul(m[11], v.z) + m[15]

\* The depth after the perspective divide.
DepthNDC(m, v) == Div(MulMat4Vec3(m, v).z, ClipW(m, v))

IsTestFrustum ==
    args = [fov |-> degrees_to_radians(F(90)), aspect |-> SCALE,
            near |-> SCALE \div 10, far |-> F(100)]

\* C11: with P = create_perspective(90 degrees, 1.0, 0.1, 100.0) the centre
\* of the near plane (0, 0, -0.1) has depth -1 after the division of the
\* clip-space z by the clip-space w, and the centre of the far plane
\* (0, 0, -100) has depth +1.
C11_DepthRange ==
    (Returned("create_perspective") /\ IsTestFrustum) =>
       /\ Near(DepthNDC(result, Vec3(0, 0, -args.near)), -SCALE)
       /\ Near(DepthNDC(result, Vec3(0, 0, -args.far)), SCALE)

Affine(m) == m[3] = 0 /\ m[7] = 0 /\ m[11] = 0 /\ m[15] = SCALE

\* C12: the product a * b has at index j * 4 + i (column j, row i) the sum
\* over k of a[k * 4 + i] * b[j * 4 + k], and it applies b first, then a:
\* for a and b with bottom row (0, 0, 0, 1) and every point v,
\* (a * b) * v is a * (b * v).
C12_ProductComposes ==
    Returned("multiply") =>
       /\ \A i, j \in 0..3 :
             result[j * 4 + i] =
                Mul(args.a[i], args.b[j * 4]) + Mul(args.a[4 + i], args.b[j * 4 + 1])
                  + Mul(args.a[8 + i], args.b[j * 4 + 2]) + Mul(args.a[12 + i], args.b[j * 4 + 3])
       /\ (Affine(args.a) /\ Affine(args.b)) =>
             \A v \in Points :
                VNear(MulMat4Vec3(result, v), MulMat4Vec3(args.a, MulMat4Vec3(args.b, v)))

\* A product whose factors do not commute has been applied to a point.
C12_Witness ==
    /\ Returned("multiply")
    /\ Affine(args.a) /\ Affine(args.b)
    /\ \E v \in Points :
          ~VNear(MulMat4Vec3(result, v), MulMat4Vec3(args.b, MulMat4Vec3(args.a, v)))

Row3 == {3, 7, 11, 15}

Row3Values == {<<0, 0, 0, SCALE>>, <<0, 0, -SCALE, 0>>, <<F(1), F(2), F(3), F(4)>>}

WithRow3(m, r) == [m EXCEPT ![3] = r[1], ![7] = r[2], ![11] = r[3], ![15] = r[4]]

\* C13: m * v takes v as (x, y, z, 1) and returns rows 0..2 of the product
\* without dividing by w: the result does not depend on row 3 of m, so
\* matrices that differ only in row 3 transform a vector identically.
C13_TransformIgnoresRow3 ==
    Returned("transform") =>
       /\ \A r \in 0..2 :
             (CASE r = 0 -> result.x [] r = 1 -> result.y [] r = 2 -> result.z) =
                Mul(args.m[r], args.v.x) + Mul(args.m[4 + r], args.v.y)
                  + Mul(args.m[8 + r], args.v.z) + args.m[12 + r]
       /\ \A r \in Row3Values : MulMat4Vec3(WithRow3(args.m, r), args.v) = result

\* A point has been transformed by a matrix whose row 3 gives w # 1.
C13_Witness ==
    /\ Returned("transform")
    /\ ClipW(args.m, args.v) \notin {0, SCALE}
    /\ result # Vec3(0, 0, 0)

\* C15: a default-constructed Mat4 is the identity, and for every matrix M,
\* M * Identity = M and Identity * M = M.
C15_IdentityLaw ==
    /\ \A i \in 0..15 : Mat4[i] = IF i \div 4 = i % 4 THEN SCALE ELSE 0
    /\ (Returned("multiply") /\ args.b = Mat4) => result = args.a
    /\ (Returned("multiply") /\ args.a = Mat4) => result = args.b

C15_Witness ==
    /\ Returned("multiply")
    /\ args.b = Mat4
    /\ args.a # Mat4
    /\ ~Affine(args.a)
    /\ result = args.a

MNear(a, b) == \A i \in 0..15 : Near(a[i], b[i])

VNeg(v) == Vec3(-v.x, -v.y, -v.z)

\* C16: create_translation(t) is the identity with column 3 set to
\* (t.x, t.y, t.z, 1), and create_translation(t) * create_translation(-t)
\* is the identity.
C16_TranslationRoundTrip ==
    Returned("create_translation") =>
       /\ result = [i \in 0..15 |->
                      CASE i = 12 -> args.t.x
                        [] i = 13 -> args.t.y
                        [] i = 14 -> args.t.z
                        [] OTHER  -> IF i \in {0, 5, 10, 15} THEN SCALE ELSE 0]
       /\ MulMat4(result, create_translation(VNeg(args.t))) = Mat4

C16_Witness ==
    /\ Returned("create_translation")
    /\ args.t = Vec3(F(-5), SCALE \div 2, F(100))
    /\ result[14] = F(100)

\* C17: for every angle theta, create_rotation_x(theta) *
\* create_rotation_x(-theta) is the identity.
C17_RotationInverse ==
    Returned("create_rotation_x") =>
       MNear(MulMat4(result, create_rotation_x(-args.angle)), Mat4)

C17_Witness ==
    /\ Returned("create_rotation_x")
    /\ args.angle = SCALE
    /\ result[6] > 0 /\ result[9] = -result[6] /\ result[5] > 0 /\ result[5] < result[6]

QNear(a, b) == Near(a.w, b.w) /\ Near(a.x, b.x) /\ Near(a.y, b.y) /\ Near(a.z, b.z)

C19_InverseIsIdentity ==
    Returned("inverse") =>
       /\ QNear(result, Quat(args.q.w, -args.q.x, -args.q.y, -args.q.z))
       /\ QNear(QMul(args.q, result), Quat(SCALE, 0, 0, 0))

C19_Witness ==
    /\ Returned("inverse")
    /\ args.q.w < 0
    /\ args.q.y > 0
    /\ result.y < 0

\* C20 as stated: for any two unit quaternions, whatever the sign of their
\* dot product, slerp(q0, q1, 0) is q0 and slerp(q0, q1, 1) is q1 component
\* for component.
C20_Original ==
    Returned("slerp") =>
       /\ args.t = 0 => QNear(result, args.q0)
       /\ args.t = SCALE => QNear(result, args.q1)

\* C20: for any two unit quaternions slerp(q0, q1, 0) is q0; slerp(q0, q1, 1)
\* is q1 when the dot product of q0 and q1 is not negative and -q1 (the
\* same rotation on the shorter path) when it is negative.
C20_SlerpEndpoints ==
    Returned("slerp") =>
       /\ args.t = 0 => QNear(result, args.q0)
       /\ args.t = SCALE =>
             QNear(result, IF QDot(args.q0, args.q1) < 0 THEN QNeg(args.q1) ELSE args.q1)

\* An interpolation to the end between quaternions with a negative dot
\* product, outside the nearly-parallel branch.
C20_Witness ==
    /\ Returned("slerp")
    /\ args.t = SCALE
    /\ QDot(args.q0, args.q1) < 0
    /\ QDot(args.q0, args.q1) > -DOT_THRESHOLD
    /\ QNear(result, QNeg(args.q1))
    /\ ~QNear(result, args.q1)

\* C21: slerp takes the shorter arc: when dot(q0, q1) < 0 it negates q1 and
\* the dot product before interpolating, so for every t slerp(q0, q1, t) is
\* slerp(q0, -q1, t), and the weights of q0 and q1 come from a dot product
\* that is not negative.
C21_ShorterArc ==
    (Returned("slerp") /\ QDot(args.q0, args.q1) < 0) =>
       /\ result = slerp(args.q0, QNeg(args.q1), args.t)
       /\ result = SlerpFrom(args.q0, QNeg(args.q1), -QDot(args.q0, args.q1), args.t)
       /\ QDot(args.q0, QNeg(args.q1)) = -QDot(args.q0, args.q1)
       /\ QDot(args.q0, QNeg(args.q1)) > 0

\* Halfway between two quaternions more than a quarter turn apart.
C21_Witness ==
    /\ Returned("slerp")
    /\ args.t = SCALE \div 2
    /\ QDot(args.q0, args.q1) < 0
    /\ QDot(args.q0, args.q1) > -DOT_THRESHOLD
    /\ QDot(result, args.q1) < 0
    /\ QDot(result, args.q0) > 0

\* A unit vector along v.
UnitAlong(u, v) == Near(magnitude(u), SCALE) /\ VNear(VScale(u, magnitude(v)), v)

QuatEpsilon == SCALE \div 10000

\* C23: Quat normalize()/normalized() skip the scaling when the magnitude
\* is at or below the epsilon 0.0001 and return the quaternion unchanged;
\* above it they scale by 1 / magnitude, to unit length.
C23_QuatNormalizeEpsilon ==
    Returned("quat_normalized") =>
       LET mag == Quat_magnitude(args.q)
       IN  IF mag <= QuatEpsilon
           THEN result = args.q
           ELSE /\ result = QScale(args.q, Div(SCALE, mag))
                /\ Near(Quat_magnitude(result), SCALE)

\* A quaternion whose magnitude is exactly the epsilon has been normalized.
C23_Witness ==
    /\ Returned("quat_normalized")
    /\ Quat_magnitude(args.q) = QuatEpsilon
    /\ args.q.y = -QuatEpsilon
    /\ result = args.q

\* The dot product and the second operand after the choice of the path.
CorrectedDot(q0, q1) == Abs(QDot(q0, q1))

CorrectedQ1(q0, q1) == IF QDot(q0, q1) < 0 THEN QNeg(q1) ELSE q1

Lerp(q0, q1, t) == Quat_normalized(QAdd(q0, QScale(QSub(q1, q0), t)))

Blend(q0, q1, d, t) ==
    LET theta_0 == Acos(d)
        theta   == Mul(theta_0, t)
    IN  QAdd(QScale(q0, Cos(theta) - Div(Mul(d, Sin(theta)), Sin(theta_0))),
             QScale(q1, Div(Sin(theta), Sin(theta_0))))

\* C24: slerp chooses its branch from the sign-corrected dot product only:
\* the normalized linear interpolation q0 + t * (q1 - q0) exactly when the
\* corrected dot product is above 0.9995, the acos/sin-weighted blend
\* otherwise, so that sin(theta_0) never divides for a corrected dot product
\* above 0.9995; slerp(q, q, t) is q for a unit q.
C24_SlerpBranch ==
    Returned("slerp") =>
       LET d  == CorrectedDot(args.q0, args.q1)
           q1 == CorrectedQ1(args.q0, args.q1)
       IN  /\ IF d > DOT_THRESHOLD
              THEN result = Lerp(args.q0, q1, args.t)
              ELSE Sin(Acos(d)) # 0 /\ result = Blend(args.q0, q1, d, args.t)
           /\ args.q0 = args.q1 => QNear(result, args.q0)

\* A quaternion other than the identity interpolated halfway with itself:
\* the blend's denominator would be zero.
C24_Witness ==
    /\ Returned("slerp")
    /\ args.t = SCALE \div 2
    /\ args.q0 = args.q1
    /\ args.q0.w # SCALE
    /\ Sin(Acos(CorrectedDot(args.q0, args.q1))) = 0
    /\ QNear(result, args.q0)

\* The position, rotation and scale an entity's own interface edits.
TransformOf(e) ==
    IF e.kind = "model"
    THEN [position |-> e.modelPosition, rotation |-> e.modelRotation, scale |-> e.modelScale]
    ELSE [position |-> e.position, rotation |-> e.rotation, scale |-> e.scale]

\* C25: an entity's model matrix is create_translation(position) *
\* create_rotation_xyz(rotation) * create_scale(scale) of the entity's
\* current position, rotation and scale: a local point is scaled, then
\* rotated, then translated, and a change of any of the three fields shows
\* in the next getTransformMatrix().
C25_ModelMatrix ==
    Returned("getTransformMatrix") =>
       LET t == TransformOf(args.e)
       IN  MNear(result,
                 MulMat4(MulMat4(create_translation(t.position), create_rotation_xyz(t.rotation)),
                         create_scale(t.scale)))

\* The camera looks the same way after the step as before it.
LookUnchanged ==
    /\ camera'.Yaw = camera.Yaw
    /\ camera'.Pitch = camera.Pitch
    /\ camera'.Front = camera.Front

\* cameraActive and not io.WantCaptureMouse: mouse_callback goes on.
LookAccepted == cameraActive /\ ~wantCaptureMouse

\* C26: mouse look is gated by the right mouse button. A cursor event that
\* arrives while camera control is inactive or while the UI captures the
\* mouse changes neither Yaw nor Pitch (nor the anchor lastX, lastY); a step
\* that activates control raises firstMouse; firstMouse stays raised until
\* a cursor event is accepted; and the cursor event accepted with firstMouse
\* raised, the first one after the press, lowers it and turns the camera by
\* nothing, wherever the cursor is.
C26_MouseLookGated ==
    [][ /\ (MouseCallback /\ ~LookAccepted)
           => (LookUnchanged /\ UNCHANGED <<lastX, lastY, firstMouse>>)
        /\ (~cameraActive /\ cameraActive') => (MouseButtonCallback /\ firstMouse')
        /\ (firstMouse /\ ~firstMouse') => (MouseCallback /\ LookAccepted)
        /\ (MouseCallback /\ LookAccepted /\ firstMouse)
           => (LookUnchanged /\ ~firstMouse' /\ cameraActive')
      ]_vars

\* The right button was pressed and the cursor then reported a position away
\* from the anchor the program started with: the anchor moved there and the
\* camera still looks down -Z.
C26_Witness ==
    /\ cameraActive
    /\ ~firstMouse
    /\ events = 2
    /\ <<lastX, lastY>> = <<F(1085), F(-1460)>>
    /\ camera.Yaw = YAW
    /\ camera.Pitch = PITCH

\* The cameras of the scene other than the active one.
OtherCameras == {cameras[n] : n \in 1..Len(cameras)} \ {activeCamera}

\* C27: in every state of a Scene reached by setActiveCamera calls,
\* addEntity calls and selections in the hierarchy window, activeCamera has
\* isActive = true and no other camera of the scene has.
C27_OneActiveCamera ==
    pc = "scene" =>
       /\ activeCamera # 0
       /\ entities[activeCamera].isActive
       /\ \A i \in OtherCameras : ~entities[i].isActive

\* The members of Camera.
CameraFields ==
    {"Position", "Front", "Up", "Right", "WorldUp", "Yaw", "Pitch",
     "MovementSpeed", "MouseSensitivity", "Zoom"}

\* Call i left every member outside `changed` as it was.
Keeps(i, changed) ==
    \A f \in CameraFields \ changed : trace[i].after[f] = trace[i].before[f]

\* C28: processKeyboard moves Position and leaves Yaw, Pitch, Zoom, Front,
\* Right and Up (and every other member) as they were; processMouseScroll
\* assigns Zoom only; processMouseMovement leaves Position, Zoom, WorldUp,
\* MovementSpeed and MouseSensitivity as they were.
C28_FrameEffects ==
    \A i \in Calls :
       /\ trace[i].call.op = "processKeyboard"
             => (Keeps(i, {"Position"}) /\ trace[i].after.Position # trace[i].before.Position)
       /\ trace[i].call.op = "processMouseScroll" => Keeps(i, {"Zoom"})
       /\ trace[i].call.op = "processMouseMovement"
             => Keeps(i, {"Yaw", "Pitch", "Front", "Right", "Up"})

\* One call of each: a scroll that changed Zoom, a look that changed Yaw and
\* Front, then a move.
C28_Witness ==
    /\ Len(trace) = 3
    /\ trace[1].call.op = "processMouseScroll"
    /\ trace[1].after.Zoom # trace[1].before.Zoom
    /\ trace[2].call.op = "processMouseMovement"
    /\ trace[2].after.Yaw # trace[2].before.Yaw
    /\ trace[2].after.Front # trace[2].before.Front
    /\ trace[3].call.op = "processKeyboard"
    /\ trace[3].after.Position # trace[3].before.Position

\* C29: loadMesh(vertices, indices) returns a mesh whose vertex and index
\* data are the arguments of that call, whatever calls came before it,
\* calls with other data of the same two sizes included.
C29_LoadMeshReturnsArguments ==
    (pc = "resources" /\ done) =>
       /\ result.vertices = args.vertices
       /\ result.indices = args.indices

\* The uniforms Light::setupInShader writes for the n-th light added.
UniformsOf(n) ==
    [type |-> entities[lights[n]].type, enabled |-> entities[lights[n]].enabled]

\* C30: setupLightsInShader uploads activeLightCount = min(number of lights,
\* 8) and configures exactly the elements 0..activeLightCount-1 of the
\* shader's lights[], each from the light added at that place; no element
\* of index 8 or more is ever written, however many lights were added; and
\* every light of the scene is in entities.
C30_LightsClamped ==
    /\ pc = "uploaded" =>
          /\ shader.activeLightCount = Min(Len(lights), MAX_LIGHTS)
          /\ DOMAIN shader.lights = 0..(shader.activeLightCount - 1)
          /\ \A i \in DOMAIN shader.lights : shader.lights[i] = UniformsOf(i + 1)
    /\ \A i \in DOMAIN shader.lights : i < MAX_LIGHTS
    /\ \A n \in 1..Len(lights) :
          /\ lights[n] \in 1..Len(entities)
          /\ entities[lights[n]].kind = "light"

\* Nine lights of both types were added and then uploaded: the count
\* uploaded is 8.
C30_Witness ==
    /\ pc = "uploaded"
    /\ Len(lights) = 9
    /\ shader.activeLightCount = 8
    /\ entities[lights[1]].type # entities[lights[2]].type
    /\ DOMAIN shader.lights = 0..7

====
